---- MODULE Spec2Model ----
(***************************************************************************)
(* Model of the TTS relay service in src/main.py: the POST /gerar-audio    *)
(* handler gerar_audio_endpoint, the coroutine gerar_audio it awaits, the  *)
(* local directory the audio files live in, and the two providers         *)
(* (edge_tts synthesis, cloudinary upload) as nondeterministic             *)
(* environments.  Requests run as coroutines on one asyncio event loop:    *)
(* a request runs without interruption until it awaits, and the only       *)
(* await of the handler is the one on gerar_audio (line 61 -> line 44).    *)
(***************************************************************************)
EXTENDS Naturals, Sequences, FiniteSets, TLC

\* Number of requests the service receives in one run.
NumReq == 2

Requests == 1..NumReq

----------------------------------------------------------------------------
(* Configuration and request inputs                                        *)

\* line 15: the key read from the environment at start-up.
API_KEY_APP == "secret123"

VOZES_WithRobot ==
    [v \in {"male", "female", "robot"} |->
        IF v = "male" THEN "pt-BR-AntonioNeural"
        ELSE IF v = "female" THEN "pt-BR-FranciscaNeural"
        ELSE "pt-BR-RobotNeural"]

\* lines 28-31
VOZES ==
    [v \in {"male", "female"} |->
        IF v = "male" THEN "pt-BR-AntonioNeural" ELSE "pt-BR-FranciscaNeural"]

\* Values a caller may send (TextRequest, lines 36-39, and the key parameter).
Keys == {API_KEY_APP, "wrong-key"}
Uuids == {"abc-1", "abc-2"}
VoiceTypes == {"male", "female", "robot"}

\* Every request brings a text of its own, so that a synthesized audio tells
\* which request asked for it.
TextOf(r) == <<"Ola mundo", r>>

\* The key and body request r may arrive with.
TextRequest(r) ==
    [key : Keys, uuid : Uuids, text : {TextOf(r)}, voice_type : VoiceTypes]

FileNameShared(uuid) == <<"audio", ".mp3">>

\* line 57: file_name = f"{dados.uuid}.mp3"
FileName(uuid) == <<uuid, ".mp3">>

\* The names a file of the working directory may have.
FileNames == {<<n, ".mp3">> : n \in Uuids \cup {"audio"}}

\* The request slot before the request has arrived.
NoRequest == [key |-> "", uuid |-> "", text |-> <<>>, voice_type |-> ""]

\* What edge_tts writes for a text and a provider voice.
Audio(text, voice) == [text |-> text, voice |-> voice]

----------------------------------------------------------------------------
(* Exceptions and responses.  Message texts and bodies are sequences of    *)
(* strings, so that a formatted detail (line 95) keeps its parts.          *)

MsgInvalidKey == <<"Chave invalida!">>
MsgInvalidVoice == <<"Voz invalida. Use 'male' ou 'female'.">>
MsgNotGenerated == <<"Arquivo de audio nao foi gerado.">>
MsgInternal == <<"Erro interno do servidor">>

\* fastapi.HTTPException(status_code, detail)
HTTPException(status, detail) ==
    [class |-> "HTTPException", status |-> status, detail |-> detail]

\* Any other exception object, with its str().
Raised(class, text) == [class |-> class, status |-> 0, detail |-> <<text>>]

\* What the upload may raise: the provider's own error (with the provider's
\* text) or anything else (a socket error, a missing file).
UploadFailures ==
    {Raised("cloudinary.exceptions.Error", "Invalid Signature"),
     Raised("Exception", "Connection reset")}

\* What the awaited synthesis may raise (edge_tts or the network).
SynthFailures == {Raised("Exception", "No audio was received")}

\* What os.remove may raise.
RemoveFailures == {Raised("OSError", "Operation not permitted")}

\* line 95: detail=f"Erro no upload: {str(e)}"
UploadDetail(e) == <<"Erro no upload: ">> \o e.detail

Contains(detail, text) == \E i \in DOMAIN detail : <<detail[i]>> = text

\* What the hosting provider answers for an upload under public_id.
UploadResult(public_id) ==
    [public_id |-> <<public_id>>,
     secure_url |-> <<"https://res.cloudinary.com/video/upload/", public_id, ".mp3">>]

\* The outcome of the handler as the framework sees it: a returned body
\* (200, plain text), an HTTPException (its status and detail), or any other
\* exception leaving the handler.
Returned(body) == [kind |-> "return", status |-> 200, body |-> body]
Thrown(e) ==
    IF e.class = "HTTPException"
    THEN [kind |-> "http", status |-> e.status, body |-> e.detail]
    ELSE [kind |-> "raw", status |-> 500, body |-> <<e.class>>]

----------------------------------------------------------------------------
(* Decisions of the handler                                                *)

KeyRejectedNever(key) == FALSE

\* line 50: if key != API_KEY_APP
KeyRejected(key) == key # API_KEY_APP

\* line 54: if dados.voice_type not in VOZES
VoiceRejected(voice_type) == voice_type \notin DOMAIN VOZES

\* lines 61, 42-44: gerar_audio(dados.text, VOZES[dados.voice_type], file_name)
\* builds edge_tts.Communicate(text, voice) and saves to file_name.
SynthArgs(d) ==
    [text |-> d.text, voice |-> VOZES[d.voice_type], file_name |-> FileName(d.uuid)]

PathExistsNegated(fsys, f) == fsys[f] = <<>>

\* os.path.exists(file_name), lines 64 and 104.
PathExists(fsys, f) == fsys[f] # <<>>

\* lines 71-76: cloudinary.uploader.upload(file_name, resource_type="video",
\* public_id=dados.uuid); content is what the uploader reads from the file.
UploadArgs(d, fsys) ==
    [file_name |-> FileName(d.uuid), resource_type |-> "video",
     public_id |-> d.uuid, content |-> fsys[FileName(d.uuid)]]

\* line 83: return upload_result.get("secure_url")
ReturnValue(upload_result) == upload_result.secure_url

\* lines 85 and 97: the except clause that takes an exception raised inside
\* the try block.  HTTPException, like every other class here, is an
\* Exception; only the provider's error class has a clause of its own.
HandlerFor(e) ==
    IF e.class = "cloudinary.exceptions.Error"
    THEN "except_cloudinary" ELSE "except_exception"

AfterSynthesisSkipCheck == "upload"

\* line 61 -> line 64: control after the awaited synthesis returns.
AfterSynthesis == "exists"

----------------------------------------------------------------------------
(* State                                                                   *)

VARIABLES
    req,         \* req[r]: the request's key and body (NoRequest before arrival)
    pc,          \* pc[r]: where request r stands in gerar_audio_endpoint
    cur,         \* the request running on the event loop, 0 when it is free
    fs,          \* fs[f]: <<>> when file f is absent, <<content>> otherwise
    written,     \* written[r]: the awaited tts.save of r has written its file
    synthCall,   \* synthCall[r]: the synthesis calls of r, with arguments
    uploadCall,  \* uploadCall[r]: the upload calls of r, with arguments
    exc,         \* exc[r]: the exception in flight inside the try block
    result,      \* result[r]: what the try statement is about to return/raise
    response,    \* response[r]: how the handler ended
    trace,       \* trace[r]: the steps r has executed, in order
    obs          \* obs[r]: what the environment answered to r

vars == <<req, pc, cur, fs, written, synthCall, uploadCall, exc, result,
          response, trace, obs>>

NoObs == [synth |-> "none", exists |-> "none", upload |-> "none", rm |-> "none"]

Init ==
    /\ req = [r \in Requests |-> NoRequest]
    /\ pc = [r \in Requests |-> "idle"]
    /\ cur = 0
    /\ fs = [f \in FileNames |-> <<>>]
    /\ written = [r \in Requests |-> FALSE]
    /\ synthCall = [r \in Requests |-> <<>>]
    /\ uploadCall = [r \in Requests |-> <<>>]
    /\ exc = [r \in Requests |-> <<>>]
    /\ result = [r \in Requests |-> <<>>]
    /\ response = [r \in Requests |-> <<>>]
    /\ trace = [r \in Requests |-> <<>>]
    /\ obs = [r \in Requests |-> NoObs]

Step(r, name) == trace' = [trace EXCEPT ![r] = Append(@, name)]

\* The handler ends: the framework gets the outcome, the event loop is free.
Respond(r, outcome) ==
    /\ response' = [response EXCEPT ![r] = <<outcome>>]
    /\ pc' = [pc EXCEPT ![r] = "done"]
    /\ cur' = 0

\* raise inside the try block (lines 59-83): control goes to an except clause.
RaiseInTry(r, e) ==
    /\ exc' = [exc EXCEPT ![r] = <<e>>]
    /\ pc' = [pc EXCEPT ![r] = HandlerFor(e)]

----------------------------------------------------------------------------
(* Steps of gerar_audio_endpoint                                           *)

\* The framework dispatches POST /gerar-audio to the handler (lines 47-48).
\* Requests are taken in the order of their numbers.
Receive(r, d) ==
    /\ cur = 0
    /\ pc[r] = "idle"
    /\ IF r = 1 THEN TRUE ELSE pc[r - 1] # "idle"
    /\ req' = [req EXCEPT ![r] = d]
    /\ pc' = [pc EXCEPT ![r] = "auth"]
    /\ cur' = r
    /\ UNCHANGED <<fs, written, synthCall, uploadCall, exc, result, response,
                   trace, obs>>

\* lines 50-51
Authorize(r) ==
    /\ cur = r
    /\ pc[r] = "auth"
    /\ Step(r, "auth")
    /\ IF KeyRejected(req[r].key)
       THEN Respond(r, Thrown(HTTPException(401, MsgInvalidKey)))
       ELSE /\ pc' = [pc EXCEPT ![r] = "voice"]
            /\ UNCHANGED <<response, cur>>
    /\ UNCHANGED <<req, fs, written, synthCall, uploadCall, exc, result, obs>>

\* lines 54-55
ValidateVoice(r) ==
    /\ cur = r
    /\ pc[r] = "voice"
    /\ Step(r, "voice")
    /\ IF VoiceRejected(req[r].voice_type)
       THEN Respond(r, Thrown(HTTPException(400, MsgInvalidVoice)))
       ELSE /\ pc' = [pc EXCEPT ![r] = "synth"]
            /\ UNCHANGED <<response, cur>>
    /\ UNCHANGED <<req, fs, written, synthCall, uploadCall, exc, result, obs>>

\* lines 57-61 and 42-44: name the file, enter the try block, call
\* gerar_audio and suspend on tts.save: the event loop is free again.
CallSynth(r) ==
    /\ cur = r
    /\ pc[r] = "synth"
    /\ Step(r, "synth")
    /\ synthCall' = [synthCall EXCEPT ![r] = Append(@, SynthArgs(req[r]))]
    /\ pc' = [pc EXCEPT ![r] = "awaiting"]
    /\ cur' = 0
    /\ UNCHANGED <<req, fs, written, uploadCall, exc, result, response, obs>>

\* line 44, inside tts.save: the synthesis writes the audio to file_name,
\* creating the file or replacing what is there (open for writing).
SynthWrite(r) ==
    /\ cur = 0
    /\ pc[r] = "awaiting"
    /\ ~written[r]
    /\ LET c == synthCall[r][Len(synthCall[r])]
       IN fs' = [fs EXCEPT ![c.file_name] = <<Audio(c.text, c.voice)>>]
    /\ written' = [written EXCEPT ![r] = TRUE]
    /\ UNCHANGED <<req, pc, cur, synthCall, uploadCall, exc, result, response,
                   trace, obs>>

\* line 61: the await returns without raising (whether or not a file was
\* written); the request runs on.
SynthReturn(r) ==
    /\ cur = 0
    /\ pc[r] = "awaiting"
    /\ cur' = r
    /\ pc' = [pc EXCEPT ![r] = AfterSynthesis]
    /\ obs' = [obs EXCEPT ![r].synth = "ok"]
    /\ UNCHANGED <<req, fs, written, synthCall, uploadCall, exc, result,
                   response, trace>>

\* line 61: the await raises.
SynthRaise(r, e) ==
    /\ cur = 0
    /\ pc[r] = "awaiting"
    /\ cur' = r
    /\ RaiseInTry(r, e)
    /\ obs' = [obs EXCEPT ![r].synth = "raised"]
    /\ UNCHANGED <<req, fs, written, synthCall, uploadCall, result, response,
                   trace>>

\* lines 64-65
CheckExists(r) ==
    /\ cur = r
    /\ pc[r] = "exists"
    /\ Step(r, "exists")
    /\ IF PathExists(fs, FileName(req[r].uuid))
       THEN /\ pc' = [pc EXCEPT ![r] = "upload"]
            /\ obs' = [obs EXCEPT ![r].exists = "yes"]
            /\ UNCHANGED exc
       ELSE /\ RaiseInTry(r, HTTPException(500, MsgNotGenerated))
            /\ obs' = [obs EXCEPT ![r].exists = "no"]
    /\ UNCHANGED <<req, cur, fs, written, synthCall, uploadCall, result,
                   response>>

\* lines 71-83: the upload (a blocking call: the event loop is not released)
\* succeeds, and the handler is about to return the URL.
UploadOk(r) ==
    /\ cur = r
    /\ pc[r] = "upload"
    /\ Step(r, "upload")
    /\ uploadCall' = [uploadCall EXCEPT ![r] = Append(@, UploadArgs(req[r], fs))]
    /\ result' = [result EXCEPT
                    ![r] = <<Returned(ReturnValue(UploadResult(req[r].uuid)))>>]
    /\ pc' = [pc EXCEPT ![r] = "finally"]
    /\ obs' = [obs EXCEPT ![r].upload = "ok"]
    /\ UNCHANGED <<req, cur, fs, written, synthCall, exc, response>>

\* lines 71-76: the upload raises.
UploadRaise(r, e) ==
    /\ cur = r
    /\ pc[r] = "upload"
    /\ Step(r, "upload")
    /\ uploadCall' = [uploadCall EXCEPT ![r] = Append(@, UploadArgs(req[r], fs))]
    /\ RaiseInTry(r, e)
    /\ obs' = [obs EXCEPT ![r].upload = e.class]
    /\ UNCHANGED <<req, cur, fs, written, synthCall, result, response>>

\* lines 85-95: except cloudinary.exceptions.Error as e
ExceptCloudinary(r) ==
    /\ cur = r
    /\ pc[r] = "except_cloudinary"
    /\ result' = [result EXCEPT
                    ![r] = <<Thrown(HTTPException(500, UploadDetail(exc[r][1])))>>]
    /\ pc' = [pc EXCEPT ![r] = "finally"]
    /\ UNCHANGED <<req, cur, fs, written, synthCall, uploadCall, exc, response,
                   trace, obs>>

\* lines 97-100: except Exception as e
ExceptException(r) ==
    /\ cur = r
    /\ pc[r] = "except_exception"
    /\ result' = [result EXCEPT
                    ![r] = <<Thrown(HTTPException(500, MsgInternal))>>]
    /\ pc' = [pc EXCEPT ![r] = "finally"]
    /\ UNCHANGED <<req, cur, fs, written, synthCall, uploadCall, exc, response,
                   trace, obs>>

\* lines 102-105: the finally block finds no file, or removes it; the try
\* statement then returns or raises what it was about to.
Cleanup(r) ==
    /\ cur = r
    /\ pc[r] = "finally"
    /\ Step(r, "cleanup")
    /\ LET f == FileName(req[r].uuid)
       IN IF PathExists(fs, f)
          THEN /\ fs' = [fs EXCEPT ![f] = <<>>]
               /\ obs' = [obs EXCEPT ![r].rm = "ok"]
          ELSE UNCHANGED <<fs, obs>>
    /\ Respond(r, result[r][1])
    /\ UNCHANGED <<req, written, synthCall, uploadCall, exc, result>>

\* lines 104-105: the file is there and os.remove raises; the error replaces
\* what the try statement was about to return or raise.
CleanupRaise(r, e) ==
    /\ cur = r
    /\ pc[r] = "finally"
    /\ Step(r, "cleanup")
    /\ PathExists(fs, FileName(req[r].uuid))
    /\ obs' = [obs EXCEPT ![r].rm = "raised"]
    /\ Respond(r, Thrown(e))
    /\ UNCHANGED <<req, fs, written, synthCall, uploadCall, exc, result>>

Next ==
    \/ \E r \in Requests : \E d \in TextRequest(r) : Receive(r, d)
    \/ \E r \in Requests : Authorize(r)
    \/ \E r \in Requests : ValidateVoice(r)
    \/ \E r \in Requests : CallSynth(r)
    \/ \E r \in Requests : SynthWrite(r)
    \/ \E r \in Requests : SynthReturn(r)
    \/ \E r \in Requests, e \in SynthFailures : SynthRaise(r, e)
    \/ \E r \in Requests : CheckExists(r)
    \/ \E r \in Requests : UploadOk(r)
    \/ \E r \in Requests, e \in UploadFailures : UploadRaise(r, e)
    \/ \E r \in Requests : ExceptCloudinary(r)
    \/ \E r \in Requests : ExceptException(r)
    \/ \E r \in Requests : Cleanup(r)
    \/ \E r \in Requests, e \in RemoveFailures : CleanupRaise(r, e)

Spec == Init /\ [][Next]_vars

----------------------------------------------------------------------------
(* Properties                                                              *)

Arrived(r) == pc[r] # "idle"
Done(r) == pc[r] = "done"
Resp(r) == response[r][1]
OwnFile(r) == <<req[r].uuid, ".mp3">>
NoCalls(r) == synthCall[r] = <<>> /\ uploadCall[r] = <<>>
Http(r, status) == Resp(r).kind = "http" /\ Resp(r).status = status
\* Request r has just been answered in this step.
Answered(r) == pc[r] # "done" /\ pc'[r] = "done"

\* C1: a request whose key differs from API_KEY_APP never gets past the key
\* check: it makes no synthesis and no upload call, and it ends in HTTP 401,
\* whatever its voice_type is.
C1_WrongKeyIs401 ==
    \A r \in Requests :
        (Arrived(r) /\ req[r].key # "secret123") =>
            /\ NoCalls(r)
            /\ pc[r] \in {"auth", "done"}
            /\ Done(r) => (Http(r, 401) /\ trace[r] = <<"auth">>)

C1_Witness ==
    \E r \in Requests :
        /\ Done(r) /\ req[r].key = "wrong-key" /\ req[r].voice_type = "robot"
        /\ Http(r, 401) /\ NoCalls(r)

\* C2: a request with the right key and a voice_type other than male and
\* female makes no synthesis and no upload call, and ends in HTTP 400.
C2_WrongVoiceIs400 ==
    \A r \in Requests :
        (Arrived(r) /\ req[r].key = "secret123"
                    /\ req[r].voice_type \notin {"male", "female"}) =>
            /\ NoCalls(r)
            /\ pc[r] \in {"auth", "voice", "done"}
            /\ Done(r) => Http(r, 400)

C2_Witness ==
    \E r \in Requests :
        /\ Done(r) /\ req[r].key = "secret123" /\ req[r].voice_type = "robot"
        /\ Http(r, 400) /\ NoCalls(r)

\* C3: whatever a request ends in, the file {uuid}.mp3 does not exist at the
\* moment its response is returned.
C3_NoFileAtResponse ==
    [][\A r \in Requests : Answered(r) => fs'[OwnFile(r)] = <<>>]_vars

\* C4: a synthesis that returns without raising and leaves no file ends the
\* request in HTTP 500 with the "audio not generated" detail, without upload.
C4_NotGeneratedDetail ==
    \A r \in Requests :
        (Done(r) /\ obs[r].synth = "ok" /\ obs[r].exists = "no") =>
            /\ Http(r, 500)
            /\ Resp(r).body = <<"Arquivo de audio nao foi gerado.">>
            /\ uploadCall[r] = <<>>

\* C5: when the upload raises the provider's error, the request ends in HTTP
\* 500 whose detail contains the provider's text, and the file written by the
\* synthesis is gone when the response is returned.
C5_UploadErrorIs500 ==
    [][\A r \in Requests :
          (Answered(r) /\ obs'[r].upload = "cloudinary.exceptions.Error") =>
              /\ response'[r][1].kind = "http"
              /\ response'[r][1].status = 500
              /\ Contains(response'[r][1].body, exc[r][1].detail)
              /\ fs'[OwnFile(r)] = <<>>]_vars

\* C6: a request with the right key and a valid voice whose synthesis leaves
\* the file and whose upload succeeds has called the synthesis with its text
\* and the provider voice of its voice_type, has called the upload with
\* {uuid}.mp3 and public_id = uuid, and ends in HTTP 200 with exactly the
\* secure URL the upload returned.
C6_HappyPath ==
    \A r \in Requests :
        (Done(r) /\ obs[r].exists = "yes" /\ obs[r].upload = "ok") =>
            /\ synthCall[r] =
                 <<[text |-> req[r].text,
                    voice |-> IF req[r].voice_type = "male"
                              THEN "pt-BR-AntonioNeural"
                              ELSE "pt-BR-FranciscaNeural",
                    file_name |-> OwnFile(r)]>>
            /\ Len(uploadCall[r]) = 1
            /\ uploadCall[r][1].file_name = OwnFile(r)
            /\ uploadCall[r][1].public_id = req[r].uuid
            /\ Resp(r) = Returned(UploadResult(req[r].uuid).secure_url)

Ran(r, name) == \E i \in DOMAIN trace[r] : trace[r][i] = name

\* The step sequences that keep the order authorization, voice validation,
\* synthesis, existence check, upload, cleanup: no step runs before the steps
\* preceding it, and only a failure cuts the sequence short, leaving the
\* cleanup to follow once the try block was entered.
OrderedRuns ==
    {<<>>, <<"auth">>, <<"auth", "voice">>, <<"auth", "voice", "synth">>,
     <<"auth", "voice", "synth", "exists">>,
     <<"auth", "voice", "synth", "exists", "upload">>,
     <<"auth", "voice", "synth", "exists", "upload", "cleanup">>,
     <<"auth", "voice", "synth", "exists", "cleanup">>,
     <<"auth", "voice", "synth", "cleanup">>}

\* C7: the steps of one request run in the order authorization, voice
\* validation, synthesis, existence check, upload, cleanup.  The existence
\* check runs only after the synthesis returned, the upload only after the
\* check passed, a step is left out only after a failure (the synthesis
\* raised, the check found no file), the cleanup runs after the upload
\* attempt, and a request that entered the try block is answered only after
\* its cleanup.
C7_StepsInOrder ==
    \A r \in Requests :
        LET t == trace[r]
            n == Len(trace[r])
        IN /\ t \in OrderedRuns
           /\ (n >= 4 /\ t[4] = "exists") => obs[r].synth = "ok"
           /\ (n >= 5 /\ t[5] = "upload") => obs[r].exists = "yes"
           /\ (n = 4 /\ t[4] = "cleanup") => obs[r].synth = "raised"
           /\ (n = 5 /\ t[5] = "cleanup") => obs[r].exists = "no"
           /\ (Done(r) /\ n >= 3) => t[n] = "cleanup"
           /\ response[r] # <<>> => Done(r)

C7_Witness ==
    \E r \in Requests :
        /\ Done(r)
        /\ trace[r] = <<"auth", "voice", "synth", "exists", "upload", "cleanup">>

\* C8: every request ends in one of 200 with the URL, 401, 400, 500 with the
\* internal-error detail or 500 with the upload-error detail; no exception
\* other than an HTTPException leaves the handler.
C8_FiveOutcomes ==
    \A r \in Requests :
        Done(r) =>
            \/ Resp(r).kind = "return" /\ Resp(r).status = 200
            \/ Http(r, 401)
            \/ Http(r, 400)
            \/ Http(r, 500) /\ Resp(r).body = MsgInternal
            \/ Http(r, 500) /\ Resp(r).body[1] = "Erro no upload: "

\* C9: requests that share a uuid race on one file.  A request whose
\* synthesis wrote the file and returned without error, and which then finds
\* no file, has lost it to the cleanup of another request with the same
\* uuid; it uploads nothing and ends in HTTP 500.
C9_FileLostToSameUuid ==
    \A r \in Requests :
        (written[r] /\ obs[r].synth = "ok" /\ obs[r].exists = "no") =>
            /\ \E s \in Requests \ {r} :
                   /\ req[s].uuid = req[r].uuid
                   /\ Ran(s, "cleanup") /\ obs[s].rm = "ok"
            /\ uploadCall[r] = <<>>
            /\ Done(r) => Http(r, 500)

\* Both requests were suspended in the synthesis; the first one resumed has
\* uploaded and removed the file, the second one finds none.
C9_Witness ==
    \E r \in Requests : \E s \in Requests \ {r} :
        /\ req[s].uuid = req[r].uuid
        /\ Done(s) /\ written[s] /\ obs[s].synth = "ok" /\ obs[s].rm = "ok"
        /\ Done(r) /\ written[r] /\ obs[r].synth = "ok" /\ obs[r].exists = "no"
        /\ Http(r, 500) /\ uploadCall[r] = <<>>

\* gerar_audio_endpoint run by itself on request d, where the synthesis
\* wrote the file or not (wrote) and the environment answered o.
SoloResponse(d, wrote, o) ==
    IF KeyRejected(d.key) THEN Thrown(HTTPException(401, MsgInvalidKey))
    ELSE IF VoiceRejected(d.voice_type)
    THEN Thrown(HTTPException(400, MsgInvalidVoice))
    ELSE IF wrote /\ o.rm = "raised"
    THEN [kind |-> "raw", status |-> 500, body |-> <<"OSError">>]
    ELSE IF o.synth = "ok" /\ wrote /\ o.upload = "ok"
    THEN Returned(UploadResult(d.uuid).secure_url)
    ELSE IF o.synth = "ok" /\ wrote /\ o.upload = "cloudinary.exceptions.Error"
    THEN Thrown(HTTPException(500, <<"Erro no upload: ", "Invalid Signature">>))
    ELSE Thrown(HTTPException(500, MsgInternal))

Alone(r) == \A s \in Requests \ {r} : req[s].uuid # req[r].uuid

\* C10: a request whose uuid no other request uses ends as it would have by
\* itself, whatever the other requests do meanwhile: the file at its path is
\* the audio of its own text, it uploads that audio under its own uuid, and
\* its synthesis is followed by the existence check finding its file.
C10_Isolation ==
    \A r \in Requests :
        (Arrived(r) /\ Alone(r)) =>
            LET mine == <<[text |-> req[r].text,
                           voice |-> VOZES[req[r].voice_type]]>>
            IN /\ fs[OwnFile(r)] # <<>> => (written[r] /\ fs[OwnFile(r)] = mine)
               /\ (written[r] /\ pc[r] \in {"awaiting", "exists", "upload"})
                      => fs[OwnFile(r)] = mine
               /\ \A i \in DOMAIN uploadCall[r] :
                      /\ uploadCall[r][i].content = mine
                      /\ uploadCall[r][i].public_id = req[r].uuid
               /\ Done(r) => Resp(r) = SoloResponse(req[r], written[r], obs[r])

\* Request s arrived, ran and was answered 200 while request r, with another
\* uuid, was suspended in its synthesis; r then found its own file, uploaded
\* it and is about to return its URL.
C10_Witness ==
    \E r \in Requests : \E s \in Requests \ {r} :
        /\ r < s /\ Alone(r)
        /\ Done(s) /\ Resp(s).status = 200 /\ obs[s].rm = "ok"
        /\ pc[r] = "finally" /\ result[r][1].status = 200

----------------------------------------------------------------------------
(* What remains of C3, C5, C6 and C8 in the runs where os.remove does not  *)
(* raise (lines 104-105).                                                  *)

RemoveRaised(r) == obs[r].rm = "raised"

\* C3, C5: a request that entered the try block and whose os.remove did not
\* raise leaves no file behind when it is answered.
CleanupUnlessRemoveRaises ==
    [][\A r \in Requests :
          (Answered(r) /\ Ran(r, "synth") /\ ~RemoveRaised(r)') =>
              fs'[OwnFile(r)] = <<>>]_vars

\* C5: the provider's error text reaches the 500 detail unless os.remove
\* raises.
UploadErrorUnlessRemoveRaises ==
    \A r \in Requests :
        (Done(r) /\ obs[r].upload = "cloudinary.exceptions.Error"
                 /\ ~RemoveRaised(r)) =>
            /\ Http(r, 500)
            /\ Resp(r).body = <<"Erro no upload: ", "Invalid Signature">>

\* C6: the URL of a successful upload is the 200 body unless os.remove raises.
HappyPathUnlessRemoveRaises ==
    \A r \in Requests :
        (Done(r) /\ obs[r].upload = "ok" /\ ~RemoveRaised(r)) =>
            Resp(r) = Returned(UploadResult(req[r].uuid).secure_url)

\* C8: only a raising os.remove lets a raw exception out of the handler.
RawOnlyFromRemove ==
    \A r \in Requests : (Done(r) /\ Resp(r).kind = "raw") => RemoveRaised(r)

====
